---- MODULE Spec2Model ----
(***************************************************************************)
(* GTFS bus-routes backend (src/index.js): the start-up loader that fills  *)
(* the five in-memory collections from the table files of gtfs_data, and   *)
(* the three read-only query endpoints served once the process listens.    *)
(*                                                                         *)
(* Strings are sequences of one-character strings, so that the template    *)
(* literal of getPrimaryKey is a real concatenation.  A row is a function  *)
(* from column names to strings; a column the parser did not set is not in *)
(* the row's DOMAIN, and reading it yields the JavaScript value undefined. *)
(* A Map is the sequence of its entries in insertion order.                *)
(***************************************************************************)
EXTENDS Integers, Sequences, FiniteSets, TLC

VARIABLES
    dirExists,   \* gtfs_data exists on disk
    otherEntry,  \* gtfs_data holds an entry that is none of the five tables
    disk,        \* file name -> [present, rows]: the table files on disk
    seeded,      \* loadGTFSData found the directory empty and seeded it
    gtfsData,    \* data key -> Map (sequence of [key, value] entries)
    pc,          \* where initializeServer / loadGTFSData stands
    cur,         \* index in Object.entries(fileMapping) of the loop
    pos,         \* rows the open stream has delivered so far
    fileState,   \* file name -> "pending" | "missing" | "reading" | "ended" | "failed"
    listening,   \* app.listen has been called
    exitCode,    \* [exited, code]: whether process.exit was called, and with what
    errorMessage,\* error.message received by initializeServer's catch
    response     \* the last HTTP response sent: [req, routeId, status, body]

vars == <<dirExists, otherEntry, disk, seeded, gtfsData, pc, cur, pos,
          fileState, listening, exitCode, errorMessage, response>>

-----------------------------------------------------------------------------
(* Bounds of the model *)

\* rows in all table files together (general specification)
MaxRows == 2
\* rows in stops.txt, trips.txt and stop_times.txt together (join specification)
MaxJoinRows == 4
\* rows in stop_times.txt (composite-key specification)
MaxStopTimeRows == 3

-----------------------------------------------------------------------------
(* JavaScript values *)

Undefined == [t |-> "undefined"]
JsNull == [t |-> "null"]
JsString(s) == [t |-> "string", s |-> s]

\* row.column
Field(row, column) ==
    IF column \in DOMAIN row THEN JsString(row[column]) ELSE Undefined

\* ToBoolean, as used by  if (primaryKey)
Truthy(v) == v.t = "string" /\ v.s # <<>>

\* ToString, as applied to a substitution of a template literal
ToStr(v) ==
    CASE v.t = "string" -> v.s
      [] v.t = "undefined" -> <<"u", "n", "d", "e", "f", "i", "n", "e", "d">>
      [] v.t = "null" -> <<"n", "u", "l", "l">>

-----------------------------------------------------------------------------
(* The fixed tables of the program *)

fileMapping ==
    [f \in {"routes.txt", "stops.txt", "trips.txt", "stop_times.txt", "calendar.txt"} |->
        CASE f = "routes.txt" -> "routes"
          [] f = "stops.txt" -> "stops"
          [] f = "trips.txt" -> "trips"
          [] f = "stop_times.txt" -> "stop_times"
          [] f = "calendar.txt" -> "calendar"]

FileNames == DOMAIN fileMapping

\* Object.entries(fileMapping): insertion order
FileOrder == <<"routes.txt", "stops.txt", "trips.txt", "stop_times.txt", "calendar.txt">>

DataKeys == {fileMapping[f] : f \in FileNames}

DowntownStation ==
    <<"D", "o", "w", "n", "t", "o", "w", "n", " ", "S", "t", "a", "t", "i", "o", "n">>

\* the data row of each sample file, on the columns the model keeps
sampleData ==
    [f \in FileNames |->
        CASE f = "routes.txt" ->
               <<[route_id |-> <<"1">>, route_type |-> <<"3">>]>>
          [] f = "stops.txt" ->
               <<[stop_id |-> <<"1", "0", "0", "1">>, stop_name |-> DowntownStation]>>
          [] f = "trips.txt" ->
               <<[route_id |-> <<"1">>, service_id |-> <<"1">>,
                  trip_id |-> <<"1", "0", "0", "1">>]>>
          [] f = "stop_times.txt" ->
               <<[trip_id |-> <<"1", "0", "0", "1">>,
                  stop_id |-> <<"1", "0", "0", "1">>, stop_sequence |-> <<"1">>]>>
          [] f = "calendar.txt" ->
               <<[service_id |-> <<"1">>, monday |-> <<"1">>]>>]

\* a stop_times key that leaves out stop_sequence
getPrimaryKeyTripOnly(fileName, row) ==
    CASE fileName = "routes.txt" -> Field(row, "route_id")
      [] fileName = "stops.txt" -> Field(row, "stop_id")
      [] fileName = "trips.txt" -> Field(row, "trip_id")
      [] fileName = "stop_times.txt" -> Field(row, "trip_id")
      [] fileName = "calendar.txt" -> Field(row, "service_id")
      [] OTHER -> JsNull

\* a stop_times key that leaves out trip_id
getPrimaryKeySequenceOnly(fileName, row) ==
    CASE fileName = "routes.txt" -> Field(row, "route_id")
      [] fileName = "stops.txt" -> Field(row, "stop_id")
      [] fileName = "trips.txt" -> Field(row, "trip_id")
      [] fileName = "stop_times.txt" ->
           JsString(<<"_">> \o ToStr(Field(row, "stop_sequence")))
      [] fileName = "calendar.txt" -> Field(row, "service_id")
      [] OTHER -> JsNull

getPrimaryKey(fileName, row) ==
    CASE fileName = "routes.txt" -> Field(row, "route_id")
      [] fileName = "stops.txt" -> Field(row, "stop_id")
      [] fileName = "trips.txt" -> Field(row, "trip_id")
      [] fileName = "stop_times.txt" ->
           JsString(ToStr(Field(row, "trip_id")) \o <<"_">>
                    \o ToStr(Field(row, "stop_sequence")))
      [] fileName = "calendar.txt" -> Field(row, "service_id")
      [] OTHER -> JsNull

-----------------------------------------------------------------------------
(* Map *)

MapKeys(m) == {m[i].key : i \in DOMAIN m}

\* index of the entry of key k (a JavaScript value), 0 when there is none
MapIndex(m, k) ==
    IF k.t = "string" /\ \E i \in DOMAIN m : m[i].key = k.s
    THEN CHOOSE i \in DOMAIN m : m[i].key = k.s
    ELSE 0

\* a set that leaves the value of an existing key alone
MapSetKeepFirst(m, k, v) ==
    IF \E i \in DOMAIN m : m[i].key = k THEN m ELSE Append(m, [key |-> k, value |-> v])

\* Map.prototype.set: an existing key keeps its place and takes the new value
MapSet(m, k, v) ==
    IF \E i \in DOMAIN m : m[i].key = k
    THEN [i \in DOMAIN m |-> IF m[i].key = k THEN [key |-> k, value |-> v] ELSE m[i]]
    ELSE Append(m, [key |-> k, value |-> v])

\* Array.from(map.values())
MapValues(m) == [i \in DOMAIN m |-> m[i].value]

-----------------------------------------------------------------------------

NoFile == [present |-> FALSE, rows |-> <<>>]
File(rows) == [present |-> TRUE, rows |-> rows]
NoResponse == [req |-> "none", routeId |-> <<>>, status |-> 0, body |-> <<>>]

StatusOK == 200
StatusError == 500
ExitFailure == 1

Running == [exited |-> FALSE, code |-> 0]
Exited(code) == [exited |-> TRUE, code |-> code]

-----------------------------------------------------------------------------
(* Inputs: what gtfs_data holds when the process starts *)

A == <<"a">>
B == <<"b">>
One == <<"1">>
Two == <<"2">>

\* rows of the general specification: the key column absent or empty, and
\* the key "1" with two different payloads
GeneralRows(f) ==
    CASE f = "routes.txt" ->
           {[route_type |-> A], [route_id |-> <<>>, route_type |-> A],
            [route_id |-> One, route_type |-> A], [route_id |-> One, route_type |-> B]}
      [] f = "stops.txt" ->
           {[stop_id |-> <<>>, stop_name |-> A],
            [stop_id |-> One, stop_name |-> A], [stop_id |-> One, stop_name |-> B]}
      [] f = "trips.txt" ->
           {[route_id |-> One],
            [route_id |-> One, trip_id |-> One], [route_id |-> Two, trip_id |-> One]}
      [] f = "stop_times.txt" ->
           {[stop_id |-> One, stop_sequence |-> One],
            [trip_id |-> <<>>, stop_id |-> One, stop_sequence |-> <<>>],
            [trip_id |-> One, stop_id |-> One, stop_sequence |-> One],
            [trip_id |-> One, stop_id |-> Two, stop_sequence |-> One]}
      [] f = "calendar.txt" ->
           {[service_id |-> <<>>, monday |-> One],
            [service_id |-> One, monday |-> One], [service_id |-> One, monday |-> <<"0">>]}

\* the contents a table file of n rows drawn from `rows` may have; a file of
\* no rows may as well be missing when mayMiss
Contents(rows, n, mayMiss) ==
    {File(x) : x \in [1..n -> rows]} \cup (IF n = 0 /\ mayMiss THEN {NoFile} ELSE {})

\* how at most n rows spread over the files of `among`
Lengths(n, among) ==
    {lens \in [FileNames -> 0..n] :
        /\ \A f \in FileNames \ among : lens[f] = 0
        /\ lens["routes.txt"] + lens["stops.txt"] + lens["trips.txt"]
             + lens["stop_times.txt"] + lens["calendar.txt"] <= n}

Disk(routes, stops, trips, stop_times, calendar) ==
    [f \in FileNames |->
        CASE f = "routes.txt" -> routes
          [] f = "stops.txt" -> stops
          [] f = "trips.txt" -> trips
          [] f = "stop_times.txt" -> stop_times
          [] f = "calendar.txt" -> calendar]

DirEmpty == ~otherEntry /\ \A f \in FileNames : ~disk[f].present

InitProcess ==
    /\ seeded = FALSE
    /\ gtfsData = [k \in DataKeys |-> <<>>]
    /\ pc = "start"
    /\ cur = 1
    /\ pos = 0
    /\ fileState = [f \in FileNames |-> "pending"]
    /\ listening = FALSE
    /\ exitCode = Running
    /\ errorMessage = <<>>
    /\ response = NoResponse

\* the directory is absent, or it exists and holds the files chosen
InitDir(populated) ==
    \/ /\ dirExists = FALSE
       /\ otherEntry = FALSE
       /\ disk = [f \in FileNames |-> NoFile]
    \/ /\ dirExists = TRUE
       /\ populated
       /\ otherEntry \in (IF \A f \in FileNames : ~disk[f].present THEN BOOLEAN ELSE {FALSE})

P == <<"p">>
Q == <<"q">>
Undef == <<"u", "n", "d", "e", "f", "i", "n", "e", "d">>

\* rows of the join specification: two routes, two trips, two stops, a trip
\* without route_id and a stop time without stop_id
JoinRows(f) ==
    CASE f = "stops.txt" ->
           {[stop_id |-> P, stop_name |-> A], [stop_id |-> Q, stop_name |-> A]}
      [] f = "trips.txt" ->
           {[route_id |-> One, trip_id |-> A], [route_id |-> One, trip_id |-> B],
            [route_id |-> Two, trip_id |-> B], [trip_id |-> A]}
      [] f = "stop_times.txt" ->
           {[trip_id |-> A, stop_id |-> P, stop_sequence |-> One],
            [trip_id |-> A, stop_id |-> P, stop_sequence |-> Two],
            [trip_id |-> A, stop_id |-> Q, stop_sequence |-> Two],
            [trip_id |-> B, stop_id |-> P, stop_sequence |-> One],
            [trip_id |-> A, stop_sequence |-> One]}
      [] OTHER -> {}

\* (trip_id, stop_sequence) of the composite-key specification: values with
\* and without an underscore, absent, and the text "undefined"
KeyPairs ==
    {[trip_id |-> A, stop_sequence |-> One],
     [trip_id |-> A, stop_sequence |-> Two],
     [trip_id |-> A, stop_sequence |-> <<"_", "1">>],
     [trip_id |-> <<"a", "_">>, stop_sequence |-> One],
     [stop_sequence |-> One],
     [trip_id |-> Undef, stop_sequence |-> One],
     [trip_id |-> A],
     [trip_id |-> A, stop_sequence |-> Undef]}

\* every pair once, and the first pair a second time with another stop_id
KeyRows(f) ==
    IF f = "stop_times.txt"
    THEN {[c \in DOMAIN k \cup {"stop_id"} |-> IF c = "stop_id" THEN P ELSE k[c]] :
             k \in KeyPairs}
         \cup {[trip_id |-> A, stop_id |-> Q, stop_sequence |-> One]}
    ELSE {}

Init ==
    /\ InitDir(\E lens \in Lengths(MaxRows, FileNames) :
                 \E routes \in Contents(GeneralRows("routes.txt"), lens["routes.txt"], TRUE),
                    stops \in Contents(GeneralRows("stops.txt"), lens["stops.txt"], TRUE),
                    trips \in Contents(GeneralRows("trips.txt"), lens["trips.txt"], TRUE),
                    stop_times \in Contents(GeneralRows("stop_times.txt"),
                                            lens["stop_times.txt"], TRUE),
                    calendar \in Contents(GeneralRows("calendar.txt"),
                                          lens["calendar.txt"], TRUE) :
                     disk = Disk(routes, stops, trips, stop_times, calendar))
    /\ InitProcess

-----------------------------------------------------------------------------
(* initializeServer and loadGTFSData *)

\* the catch of loadGTFSData wraps the message, the catch of initializeServer
\* prints it and ends the process
Abort(message) ==
    /\ errorMessage' = <<"GTFS data loading failed: ">> \o message
    /\ exitCode' = Exited(ExitFailure)
    /\ pc' = "exited"

checkGTFSDirectory ==
    /\ pc = "start"
    /\ dirExists' = TRUE
    /\ pc' = "readdir"
    /\ UNCHANGED <<otherEntry, disk, seeded, gtfsData, cur, pos, fileState,
                   listening, exitCode, errorMessage, response>>

\* fs.mkdirSync throws
MkdirFails ==
    /\ pc = "start"
    /\ ~dirExists
    /\ Abort(<<"Failed to create GTFS directory: ", "EACCES">>)
    /\ UNCHANGED <<dirExists, otherEntry, disk, seeded, gtfsData, cur, pos,
                   fileState, listening, response>>

\* the files createSampleGTFSFiles leaves on disk when the writes of
\* `written` succeed and the others fail
createSampleGTFSFiles(written) ==
    [f \in FileNames |->
        IF ~disk[f].present /\ f \in written THEN File(sampleData[f]) ELSE disk[f]]

\* lines 93-96: an empty directory is seeded with the sample files
SeedIfEmpty ==
    /\ pc = "readdir"
    /\ IF DirEmpty
       THEN /\ \E written \in SUBSET FileNames : disk' = createSampleGTFSFiles(written)
            /\ seeded' = TRUE
       ELSE UNCHANGED <<disk, seeded>>
    /\ pc' = "loop"
    /\ UNCHANGED <<dirExists, otherEntry, gtfsData, cur, pos, fileState,
                   listening, exitCode, errorMessage, response>>

CurFile == FileOrder[cur]

\* a missing file treated as a fatal error
SkipMissingFatal ==
    /\ pc = "loop"
    /\ cur <= Len(FileOrder)
    /\ ~disk[CurFile].present
    /\ fileState' = [fileState EXCEPT ![CurFile] = "missing"]
    /\ Abort(<<"Missing file: ", CurFile>>)
    /\ UNCHANGED <<dirExists, otherEntry, disk, seeded, gtfsData, cur, pos,
                   listening, response>>

\* the file is absent: warn and continue
SkipMissing ==
    /\ pc = "loop"
    /\ cur <= Len(FileOrder)
    /\ ~disk[CurFile].present
    /\ fileState' = [fileState EXCEPT ![CurFile] = "missing"]
    /\ cur' = cur + 1
    /\ UNCHANGED <<dirExists, otherEntry, disk, seeded, gtfsData, pc, pos,
                   listening, exitCode, errorMessage, response>>

\* fs.createReadStream(filePath).pipe(csv()), then await the promise
OpenStream ==
    /\ pc = "loop"
    /\ cur <= Len(FileOrder)
    /\ disk[CurFile].present
    /\ fileState' = [fileState EXCEPT ![CurFile] = "reading"]
    /\ pos' = 0
    /\ pc' = "reading"
    /\ UNCHANGED <<dirExists, otherEntry, disk, seeded, gtfsData, cur,
                   listening, exitCode, errorMessage, response>>

\* if (primaryKey)
KeyPresent(primaryKey) == Truthy(primaryKey)

\* the "data" handler applied to one row
StoreRow(m, fileName, row) ==
    LET primaryKey == getPrimaryKey(fileName, row)
    IN  IF KeyPresent(primaryKey) THEN MapSet(m, primaryKey.s, row) ELSE m

OnData ==
    /\ pc = "reading"
    /\ pos < Len(disk[CurFile].rows)
    /\ gtfsData' = [gtfsData EXCEPT ![fileMapping[CurFile]] =
                        StoreRow(@, CurFile, disk[CurFile].rows[pos + 1])]
    /\ pos' = pos + 1
    /\ UNCHANGED <<dirExists, otherEntry, disk, seeded, pc, cur, fileState,
                   listening, exitCode, errorMessage, response>>

\* the "end" handler resolves the promise and the loop goes on
OnEnd ==
    /\ pc = "reading"
    /\ pos = Len(disk[CurFile].rows)
    /\ fileState' = [fileState EXCEPT ![CurFile] = "ended"]
    /\ cur' = cur + 1
    /\ pc' = "loop"
    /\ UNCHANGED <<dirExists, otherEntry, disk, seeded, gtfsData, pos,
                   listening, exitCode, errorMessage, response>>

\* a catch at line 128 that logs and does not rethrow
RejectSwallowed(prefix, cause) ==
    /\ fileState' = [fileState EXCEPT ![CurFile] = "failed"]
    /\ cur' = cur + 1
    /\ pc' = "loop"
    /\ UNCHANGED <<dirExists, otherEntry, disk, seeded, gtfsData, pos,
                   listening, exitCode, errorMessage, response>>

\* reject(new Error(...)): the catch at line 128 logs and rethrows
Reject(prefix, cause) ==
    /\ fileState' = [fileState EXCEPT ![CurFile] = "failed"]
    /\ Abort(<<prefix, CurFile, ": ", cause>>)
    /\ UNCHANGED <<dirExists, otherEntry, disk, seeded, gtfsData, cur, pos,
                   listening, response>>

\* "error" of the read stream
OnReadError ==
    /\ pc = "reading"
    /\ Reject("Error reading ", "EIO")

\* "error" of the csv parser
OnParseError ==
    /\ pc = "reading"
    /\ Reject("Error parsing ", "Row length does not match headers")

\* the for loop is over and loadGTFSData returns
LoadReturns ==
    /\ pc = "loop"
    /\ cur > Len(FileOrder)
    /\ pc' = "loaded"
    /\ UNCHANGED <<dirExists, otherEntry, disk, seeded, gtfsData, cur, pos,
                   fileState, listening, exitCode, errorMessage, response>>

\* loadGTFSData(gtfsPath) called without await
LoadNotAwaited == pc \in {"reading", "loaded"}

\* await loadGTFSData(gtfsPath)
LoadAwaited == pc = "loaded"

\* app.listen
Listen ==
    /\ LoadAwaited
    /\ ~listening
    /\ ~exitCode.exited
    /\ listening' = TRUE
    /\ UNCHANGED <<dirExists, otherEntry, disk, seeded, gtfsData, pc, cur, pos,
                   fileState, exitCode, errorMessage, response>>

-----------------------------------------------------------------------------
(* The query endpoints *)

Serving == listening /\ ~exitCode.exited

\* reading a property of undefined throws a TypeError
ReadThrows(obj) == obj = Undefined \/ obj = JsNull

\* a handler that empties the collection it lists
ListRoutesClearing ==
    /\ listening /\ ~exitCode.exited
    /\ response' = [req |-> "routes", routeId |-> <<>>, status |-> StatusOK,
                    body |-> MapValues(gtfsData["routes"])]
    /\ gtfsData' = [gtfsData EXCEPT !["routes"] = <<>>]
    /\ UNCHANGED <<dirExists, otherEntry, disk, seeded, pc, cur, pos,
                   fileState, listening, exitCode, errorMessage>>

\* GET /api/routes
ListRoutes ==
    /\ Serving
    /\ response' = [req |-> "routes", routeId |-> <<>>, status |-> StatusOK,
                    body |-> MapValues(gtfsData["routes"])]
    /\ UNCHANGED <<dirExists, otherEntry, disk, seeded, gtfsData, pc, cur, pos,
                   fileState, listening, exitCode, errorMessage>>

\* GET /api/stops
ListStops ==
    /\ Serving
    /\ response' = [req |-> "stops", routeId |-> <<>>, status |-> StatusOK,
                    body |-> MapValues(gtfsData["stops"])]
    /\ UNCHANGED <<dirExists, otherEntry, disk, seeded, gtfsData, pc, cur, pos,
                   fileState, listening, exitCode, errorMessage>>

\* trips of the route: trip.route_id === routeId
routeTrips(routeId) ==
    LET OfRoute(trip) == Field(trip, "route_id") = JsString(routeId)
    IN  SelectSeq(MapValues(gtfsData["trips"]), OfRoute)

\* A stop object is referred to by the index of its entry in gtfsData.stops;
\* 0 stands for undefined, the result of Map.prototype.get on a key not held.
tripStops(trip) ==
    LET OfTrip(stopTime) == Field(stopTime, "trip_id") = Field(trip, "trip_id")
        times == SelectSeq(MapValues(gtfsData["stop_times"]), OfTrip)
    IN  [i \in DOMAIN times |-> MapIndex(gtfsData["stops"], Field(times[i], "stop_id"))]

\* the guard left out
StopAlwaysFound(stop) == TRUE

\* if (stop)
StopFound(stop) == stop # 0

\* an array push in place of a Set
SetAddAlways(set, x) == Append(set, x)

\* Set.prototype.add: by identity, in insertion order
SetAdd(set, x) == IF \E i \in DOMAIN set : set[i] = x THEN set ELSE Append(set, x)

\* tripStops.forEach((stop) => { if (stop) routeStops.add(stop); })
RECURSIVE AddStops(_, _)
AddStops(set, stops) ==
    IF stops = <<>> THEN set
    ELSE AddStops(IF StopFound(Head(stops)) THEN SetAdd(set, Head(stops)) ELSE set,
                  Tail(stops))

\* routeTrips.forEach((trip) => ...)
RECURSIVE ForEachTrip(_, _)
ForEachTrip(set, trips) ==
    IF trips = <<>> THEN set
    ELSE ForEachTrip(AddStops(set, tripStops(Head(trips))), Tail(trips))

\* Array.from(routeStops)
routeStops(routeId) ==
    LET set == ForEachTrip(<<>>, routeTrips(routeId))
    IN  [i \in DOMAIN set |->
            IF set[i] = 0 THEN Undefined ELSE gtfsData["stops"][set[i]].value]

\* whether the try block of the handler throws
RouteStopsThrows ==
    \/ \E i \in DOMAIN gtfsData["trips"] : ReadThrows(gtfsData["trips"][i].value)
    \/ \E i \in DOMAIN gtfsData["stop_times"] :
           ReadThrows(gtfsData["stop_times"][i].value)

\* the route ids requests ask for
RouteIds == {One, Two, <<"x">>}

\* GET /api/routes/:routeId/stops
StopsForRoute(routeId) ==
    /\ Serving
    /\ response' =
           IF RouteStopsThrows
           THEN [req |-> "routeStops", routeId |-> routeId, status |-> StatusError,
                 body |-> <<>>]
           ELSE [req |-> "routeStops", routeId |-> routeId, status |-> StatusOK,
                 body |-> routeStops(routeId)]
    /\ UNCHANGED <<dirExists, otherEntry, disk, seeded, gtfsData, pc, cur, pos,
                   fileState, listening, exitCode, errorMessage>>

-----------------------------------------------------------------------------

Next ==
    \/ checkGTFSDirectory
    \/ MkdirFails
    \/ SeedIfEmpty
    \/ SkipMissing
    \/ OpenStream
    \/ OnData
    \/ OnEnd
    \/ OnReadError
    \/ OnParseError
    \/ LoadReturns
    \/ Listen
    \/ ListRoutes
    \/ ListStops
    \/ \E routeId \in RouteIds : StopsForRoute(routeId)

Spec == Init /\ [][Next]_vars

\* the join specification: routes.txt empty, calendar.txt missing, the other
\* three tables present with at most MaxJoinRows rows together
InitJoin ==
    /\ InitDir(\E lens \in Lengths(MaxJoinRows, {"stops.txt", "trips.txt", "stop_times.txt"}) :
                 \E stops \in Contents(JoinRows("stops.txt"), lens["stops.txt"], FALSE),
                    trips \in Contents(JoinRows("trips.txt"), lens["trips.txt"], FALSE),
                    stop_times \in Contents(JoinRows("stop_times.txt"),
                                            lens["stop_times.txt"], FALSE) :
                     disk = Disk(File(<<>>), stops, trips, stop_times, NoFile))
    /\ InitProcess

SpecJoin == InitJoin /\ [][Next]_vars

\* the composite-key specification: only stop_times.txt is present
InitKey ==
    /\ InitDir(\E stop_times \in UNION {Contents(KeyRows("stop_times.txt"), n, FALSE) :
                                          n \in 0..MaxStopTimeRows} :
                     disk = Disk(NoFile, NoFile, NoFile, stop_times, NoFile))
    /\ InitProcess

SpecKey == InitKey /\ [][Next]_vars

-----------------------------------------------------------------------------
(* Vocabulary of the properties *)

Entries(m) == {m[i] : i \in DOMAIN m}

Rows(f) == disk[f].rows

IndexOf(f) == CHOOSE i \in DOMAIN FileOrder : FileOrder[i] = f

\* rows of f the "data" handler has been given so far
Delivered(f) ==
    CASE fileState[f] = "ended" -> Len(Rows(f))
      [] fileState[f] \in {"reading", "failed"} -> pos
      [] OTHER -> 0

\* the keys under which rows of `rows` are stored
StoredKeys(f, rows) ==
    {getPrimaryKey(f, rows[i]).s :
        i \in {j \in DOMAIN rows : Truthy(getPrimaryKey(f, rows[j]))}}

\* the last row of `rows` stored under key k
LastRow(f, rows, k) ==
    LET carrying == {i \in DOMAIN rows : getPrimaryKey(f, rows[i]) = JsString(k)}
    IN  rows[CHOOSE i \in carrying : \A j \in carrying : j <= i]

\* one entry per stored key, holding the last row that carries the key
LastWins(f, rows) ==
    {[key |-> k, value |-> LastRow(f, rows, k)] : k \in StoredKeys(f, rows)}

-----------------------------------------------------------------------------
(* C1 *)

\* C1: the listener is started only after loadGTFSData has finished for all
\* five tables: while the process listens, every table file has been read to
\* its "end" event (its collection holds every key of the file) or was found
\* missing, and no stream is open; the same holds whenever a response exists.
C1_ListenAfterLoad ==
    (listening \/ response # NoResponse) =>
        /\ pc = "loaded"
        /\ \A f \in FileNames :
              \/ /\ fileState[f] = "ended"
                 /\ MapKeys(gtfsData[fileMapping[f]]) = StoredKeys(f, Rows(f))
              \/ /\ fileState[f] = "missing"
                 /\ ~disk[f].present

C1_Witness ==
    /\ listening
    /\ \E f \in FileNames : fileState[f] = "ended" /\ Len(gtfsData[fileMapping[f]]) > 0
    /\ \E f \in FileNames : fileState[f] = "missing"

-----------------------------------------------------------------------------
(* C2 *)

NamesFile(message, f) == \E i \in DOMAIN message : message[i] = f

\* C2: when reading or parsing a present table file fails, the load stops at
\* that file (every later table is still pending, its collection empty), the
\* message initializeServer receives names the file, the process has exited
\* with a non-zero status and the listener was not started.
C2_AbortOnError ==
    /\ \A f \in FileNames :
          fileState[f] = "failed" =>
              /\ exitCode.exited
              /\ exitCode.code # 0
              /\ pc = "exited"
              /\ NamesFile(errorMessage, f)
              /\ \A g \in FileNames :
                    IndexOf(g) > IndexOf(f) =>
                        fileState[g] = "pending" /\ gtfsData[fileMapping[g]] = <<>>
    /\ exitCode.exited => ~listening /\ response = NoResponse

C2_Witness ==
    /\ fileState["trips.txt"] = "failed"
    /\ fileState["routes.txt"] = "ended"
    /\ disk["stop_times.txt"].present
    /\ exitCode.exited

-----------------------------------------------------------------------------
(* C3 *)

\* C3: in a directory that was not empty, an absent table file does not abort
\* the load: its collection stays empty and the loop moves on, the process
\* exits only for a failed file (or a directory it could not create), every
\* present file is loaded into its own collection as its own rows determine,
\* and once the load has returned the listener is started.
C3_MissingFileSkipped ==
    ~seeded =>
        /\ \A f \in FileNames :
              fileState[f] = "missing" =>
                  gtfsData[fileMapping[f]] = <<>> /\ cur > IndexOf(f)
        /\ exitCode.exited =>
              (\E f \in FileNames : fileState[f] = "failed") \/ ~dirExists
        /\ pc = "loaded" =>
              /\ \A f \in FileNames :
                    disk[f].present =>
                        Entries(gtfsData[fileMapping[f]]) = LastWins(f, Rows(f))
              /\ listening \/ ENABLED Listen

C3_Witness ==
    /\ ~seeded
    /\ listening
    /\ fileState["routes.txt"] = "missing"
    /\ fileState["calendar.txt"] = "missing"
    /\ Len(gtfsData["stops"]) > 0

-----------------------------------------------------------------------------
(* C4 *)

\* the stops the join of route -> trips -> stop_times -> stops selects
Joined(routeId) ==
    {e.value : e \in
        {e \in Entries(gtfsData["stops"]) :
            \E t \in Entries(gtfsData["trips"]), st \in Entries(gtfsData["stop_times"]) :
                /\ Field(t.value, "route_id") = JsString(routeId)
                /\ Field(st.value, "trip_id") = Field(t.value, "trip_id")
                /\ Field(st.value, "stop_id") = JsString(e.key)}}

-----------------------------------------------------------------------------
(* C5 *)

TripsOfRoute(routeId) ==
    {t \in Entries(gtfsData["trips"]) : Field(t.value, "route_id") = JsString(routeId)}

\* stop times of the route whose stop_id is no key of the stops collection
Dangling(routeId) ==
    {st \in Entries(gtfsData["stop_times"]) :
        /\ \E t \in TripsOfRoute(routeId) :
              Field(st.value, "trip_id") = Field(t.value, "trip_id")
        /\ MapIndex(gtfsData["stops"], Field(st.value, "stop_id")) = 0}

\* C5: the stops-for-route query answers 200 whatever the data: an array of
\* rows of the stops collection (never undefined or null), empty when no trip
\* has the route id, and empty when every stop time of the route is dangling.
C5_NoErrorFromData ==
    response.req = "routeStops" =>
        /\ response.status = StatusOK
        /\ \A i \in DOMAIN response.body :
              \E e \in Entries(gtfsData["stops"]) : response.body[i] = e.value
        /\ TripsOfRoute(response.routeId) = {} => response.body = <<>>
        /\ Len(response.body) <=
              Cardinality({st \in Entries(gtfsData["stop_times"]) :
                             st \notin Dangling(response.routeId)})

\* a route with a dangling stop time and a resolved one
C5_Witness ==
    /\ response.req = "routeStops"
    /\ response.status = StatusOK
    /\ Dangling(response.routeId) # {}
    /\ Len(response.body) = 1

-----------------------------------------------------------------------------
(* C6 *)

\* C6: at every point of the load a collection holds at most one row per key,
\* and its entries are one per key of the rows delivered so far, each holding
\* the last delivered row that carries the key; once the file has ended this
\* is the last row of the file with that key.
C6_LastWriteWins ==
    \A f \in FileNames :
        LET m == gtfsData[fileMapping[f]]
        IN  /\ \A i, j \in DOMAIN m : m[i].key = m[j].key => i = j
            /\ Entries(m) = LastWins(f, SubSeq(Rows(f), 1, Delivered(f)))

\* a file whose two rows carry the same key and differ has ended
C6_Witness ==
    \E f \in FileNames :
        /\ fileState[f] = "ended"
        /\ Len(Rows(f)) = 2
        /\ Rows(f)[1] # Rows(f)[2]
        /\ getPrimaryKey(f, Rows(f)[1]) = getPrimaryKey(f, Rows(f)[2])
        /\ Len(gtfsData[fileMapping[f]]) = 1

-----------------------------------------------------------------------------
(* C7 *)

\* the columns that make the key of each entity
KeyColumns(f) ==
    CASE f = "routes.txt" -> {"route_id"}
      [] f = "stops.txt" -> {"stop_id"}
      [] f = "trips.txt" -> {"trip_id"}
      [] f = "stop_times.txt" -> {"trip_id", "stop_sequence"}
      [] f = "calendar.txt" -> {"service_id"}

\* C7: no collection ever holds a row one of whose key columns is absent or
\* empty (stop_times included).
C7_KeylessRowsDropped ==
    \A f \in FileNames :
        \A e \in Entries(gtfsData[fileMapping[f]]) :
            \A c \in KeyColumns(f) : Truthy(Field(e.value, c))

-----------------------------------------------------------------------------
(* C8 *)

StopTimeKey(row) == getPrimaryKey("stop_times.txt", row)

HasKeyColumns(row) == {"trip_id", "stop_sequence"} \subseteq DOMAIN row

\* no later row of stop_times.txt is stored under the key of row i
LastOfItsKey(i) ==
    \A k \in DOMAIN Rows("stop_times.txt") :
        k > i => StopTimeKey(Rows("stop_times.txt")[k]) # StopTimeKey(Rows("stop_times.txt")[i])

\* row i of stop_times.txt is a value of the collection
Retained(i) ==
    \E e \in Entries(gtfsData["stop_times"]) :
        /\ JsString(e.key) = StopTimeKey(Rows("stop_times.txt")[i])
        /\ e.value = Rows("stop_times.txt")[i]

\* C8: after stop_times.txt is loaded, of two rows with the same trip_id,
\* rows of different stop_sequence have different keys and neither replaces
\* the other (each is retained unless a further row takes its key), and rows
\* of the same stop_sequence share one entry, which holds the later row
\* (unless a further row takes the key).  Both columns are present in the rows.
C8_CompositeKey ==
    fileState["stop_times.txt"] = "ended" =>
        LET rows == Rows("stop_times.txt")
        IN  \A i, j \in DOMAIN rows :
                (/\ i < j
                 /\ HasKeyColumns(rows[i]) /\ HasKeyColumns(rows[j])
                 /\ rows[i].trip_id = rows[j].trip_id) =>
                    IF rows[i].stop_sequence # rows[j].stop_sequence
                    THEN /\ StopTimeKey(rows[i]) # StopTimeKey(rows[j])
                         /\ LastOfItsKey(i) => Retained(i)
                         /\ LastOfItsKey(j) => Retained(j)
                    ELSE /\ StopTimeKey(rows[i]) = StopTimeKey(rows[j])
                         /\ Cardinality({e \in DOMAIN gtfsData["stop_times"] :
                                JsString(gtfsData["stop_times"][e].key) = StopTimeKey(rows[j])}) = 1
                         /\ LastOfItsKey(j) => Retained(j)
                         /\ (LastOfItsKey(j) /\ rows[i] # rows[j]) => ~Retained(i)

\* same trip: sequences 1, 2, 1 with another stop_id; two entries are kept
C8_Witness ==
    /\ fileState["stop_times.txt"] = "ended"
    /\ Rows("stop_times.txt") =
          <<[trip_id |-> A, stop_id |-> P, stop_sequence |-> One],
            [trip_id |-> A, stop_id |-> P, stop_sequence |-> Two],
            [trip_id |-> A, stop_id |-> Q, stop_sequence |-> One]>>
    /\ Len(gtfsData["stop_times"]) = 2
    /\ gtfsData["stop_times"][1].value.stop_id = Q

-----------------------------------------------------------------------------
(* C9 *)

\* C9: once the process listens no step changes any of the five collections,
\* and a query repeated right after itself is answered as before.
C9_ReadOnlyAfterListen ==
    [][listening =>
          /\ gtfsData' = gtfsData
          /\ (response.req # "none" /\ response'.req = response.req
                /\ response'.routeId = response.routeId) => response' = response]_vars

C9_Witness ==
    /\ listening
    /\ response.req = "routes"
    /\ Len(response.body) > 0
    /\ Len(gtfsData["stops"]) > 0

-----------------------------------------------------------------------------
(* C10 *)

DifferentPair(r, s) ==
    \/ Field(r, "trip_id") # Field(s, "trip_id")
    \/ Field(r, "stop_sequence") # Field(s, "stop_sequence")

\* both rows are entries of the collection, under different keys
BothStored(r, s) ==
    /\ StopTimeKey(r) # StopTimeKey(s)
    /\ MapIndex(gtfsData["stop_times"], StopTimeKey(r)) # 0
    /\ MapIndex(gtfsData["stop_times"], StopTimeKey(s)) # 0

\* C10 as claimed: after the load, any two rows of stop_times.txt that differ
\* in trip_id or in stop_sequence are stored under different keys, whatever
\* strings the two columns hold, underscores included.
C10_KeyInjective ==
    fileState["stop_times.txt"] = "ended" =>
        \A i, j \in DOMAIN Rows("stop_times.txt") :
            LET r == Rows("stop_times.txt")[i]
                s == Rows("stop_times.txt")[j]
            IN  (HasKeyColumns(r) /\ HasKeyColumns(s) /\ DifferentPair(r, s)) =>
                    BothStored(r, s)

\* both key columns are present and stop_sequence holds no underscore
PlainSequence(row) ==
    /\ HasKeyColumns(row)
    /\ \A n \in DOMAIN row.stop_sequence : row.stop_sequence[n] # "_"

\* C10 (amended): two rows of stop_times.txt in which both key columns are
\* present and stop_sequence holds no underscore have the same key exactly
\* when they agree on trip_id and stop_sequence; when they differ, both are
\* stored, under different keys.  trip_id may hold underscores.
C10_KeyInjectivePlainSequence ==
    fileState["stop_times.txt"] = "ended" =>
        \A i, j \in DOMAIN Rows("stop_times.txt") :
            LET r == Rows("stop_times.txt")[i]
                s == Rows("stop_times.txt")[j]
            IN  (PlainSequence(r) /\ PlainSequence(s)) =>
                    /\ StopTimeKey(r) = StopTimeKey(s) <=> ~DifferentPair(r, s)
                    /\ DifferentPair(r, s) => BothStored(r, s)

\* trip_id "a_" and trip_id "a", both with stop_sequence "1", are both stored
C10_Witness ==
    /\ fileState["stop_times.txt"] = "ended"
    /\ \E i, j \in DOMAIN Rows("stop_times.txt") :
          /\ PlainSequence(Rows("stop_times.txt")[i])
          /\ PlainSequence(Rows("stop_times.txt")[j])
          /\ Rows("stop_times.txt")[i].stop_sequence = One
          /\ Rows("stop_times.txt")[j].stop_sequence = One
          /\ Rows("stop_times.txt")[i].trip_id = <<"a", "_">>
          /\ Rows("stop_times.txt")[j].trip_id = A
    /\ Len(gtfsData["stop_times"]) >= 2

====
